---- MODULE Spec2Model ----
(***************************************************************************)
(* Model of src/libstore/content-address.cc: the textual codec of content  *)
(* addresses (render / parse) and the reference-aware constructors.        *)
(*                                                                         *)
(* Strings are sequences of one-character strings, so that splitting on    *)
(* ':' and stripping a literal prefix are computed as the code computes    *)
(* them.  Every function of the file is an operator; the state machine     *)
(* calls one function per step on an input drawn from a bounded set and    *)
(* records the call and what it returned (or threw).                       *)
(***************************************************************************)
EXTENDS Integers, Sequences, FiniteSets, TLC

VARIABLES pc, op, arg, ret

vars == <<pc, op, arg, ret>>

(***************************************************************************)
(* Bounds of the model.                                                    *)
(***************************************************************************)
\* bits of the shorter modelled digest; the longer one has three more
DigestBits == 3
\* longest hash body of a parser input, in characters
MaxBodyLen == 2
\* number of store paths a reference set draws from
MaxPaths == 2

(***************************************************************************)
(* String literals of the source.                                          *)
(***************************************************************************)
StrEmpty == << >>
StrColon == <<":">>
StrText == <<"t", "e", "x", "t">>
StrFixed == <<"f", "i", "x", "e", "d">>
StrTextColon == <<"t", "e", "x", "t", ":">>
StrFixedColon == <<"f", "i", "x", "e", "d", ":">>
StrRColon == <<"r", ":">>

(***************************************************************************)
(* split.hh: the two string_view helpers the parser is written with.       *)
(***************************************************************************)
\* position of the first occurrence of character c in s, 0 when absent
IndexOf(s, c) ==
    IF \E i \in 1..Len(s) : s[i] = c
    THEN CHOOSE i \in 1..Len(s) : s[i] = c /\ \A j \in 1..(i - 1) : s[j] # c
    ELSE 0

startsWith(s, p) ==
    /\ Len(p) <= Len(s)
    /\ SubSeq(s, 1, Len(p)) = p

\* splitPrefixTo(string, sep): up to the first sep, and the string advanced
\* past it; nothing, and the string untouched, when sep does not occur
splitPrefixTo(s, sep) ==
    LET i == IndexOf(s, sep)
    IN  IF i = 0
        THEN [found |-> FALSE, prefix |-> StrEmpty, rest |-> s]
        ELSE [found |-> TRUE,
              prefix |-> SubSeq(s, 1, i - 1),
              rest |-> SubSeq(s, i + 1, Len(s))]

\* splitPrefix(string, prefix): whether string starts with prefix, which is
\* then removed from it
splitPrefix(s, p) ==
    IF startsWith(s, p)
    THEN [found |-> TRUE, rest |-> SubSeq(s, Len(p) + 1, Len(s))]
    ELSE [found |-> FALSE, rest |-> s]

(***************************************************************************)
(* The hash subsystem (hash.hh): algorithm names, digests and the          *)
(* non-self-describing base-32 text of a digest.  A digest of an algorithm *)
(* with b bits is a number below 2^b; its base-32 text has                 *)
(* (b - 1) / 5 + 1 characters.                                             *)
(***************************************************************************)
HashTypes == {"sha1", "sha256"}

printHashType(ht) ==
    IF ht = "sha1" THEN <<"s", "h", "a", "1">>
    ELSE <<"s", "h", "a", "2", "5", "6">>

Throw(e, m, a) == [err |-> e, msg |-> m, arg |-> a, val |-> << >>]

Result(v) == [err |-> "", msg |-> "", arg |-> StrEmpty, val |-> <<v>>]

parseHashType(s) ==
    IF \E ht \in HashTypes : printHashType(ht) = s
    THEN Result(CHOOSE ht \in HashTypes : printHashType(ht) = s)
    ELSE Throw("UnknownHashAlgorithm", "unknown hash algorithm", s)

HashBits(ht) == IF ht = "sha1" THEN DigestBits ELSE DigestBits + 3

RECURSIVE Pow(_, _)
Pow(b, n) == IF n = 0 THEN 1 ELSE b * Pow(b, n - 1)

base32Len(ht) == ((HashBits(ht) - 1) \div 5) + 1

Base32Chars ==
    <<"0", "1", "2", "3", "4", "5", "6", "7", "8", "9", "a", "b", "c", "d",
      "f", "g", "h", "i", "j", "k", "l", "m", "n", "p", "q", "r", "s", "v",
      "w", "x", "y", "z">>

isBase32Char(c) == \E i \in 1..Len(Base32Chars) : Base32Chars[i] = c

base32Digit(c) == (CHOOSE i \in 1..Len(Base32Chars) : Base32Chars[i] = c) - 1

printHash32(n, len) ==
    [i \in 1..len |->
        Base32Chars[((n \div Pow(Len(Base32Chars), len - i)) % Len(Base32Chars)) + 1]]

RECURSIVE base32Value(_)
base32Value(s) ==
    IF s = << >> THEN 0
    ELSE base32Value(SubSeq(s, 1, Len(s) - 1)) * Len(Base32Chars)
            + base32Digit(s[Len(s)])

\* Hash::to_string(Base32, includeType)
to_string(h, includeType) ==
    (IF includeType THEN printHashType(h.type) \o StrColon ELSE StrEmpty)
        \o printHash32(h.hash, base32Len(h.type))

\* Hash::parseNonSRIUnprefixed(rest, type)
parseNonSRIUnprefixed(s, ht) ==
    IF /\ Len(s) = base32Len(ht)
       /\ \A i \in 1..Len(s) : isBase32Char(s[i])
       /\ base32Value(s) < Pow(2, HashBits(ht))
    THEN Result([type |-> ht, hash |-> base32Value(s)])
    ELSE Throw("InvalidDigestEncoding", "invalid hash", s)

(***************************************************************************)
(* content-address.hh: the values.  A ContentAddressMethod is one of       *)
(* "TextHashMethod", "Flat", "Recursive" (the last two are the             *)
(* FileIngestionMethod alternative of the variant).                        *)
(***************************************************************************)
FileIngestionMethods == {"Flat", "Recursive"}

ContentAddressMethods == {"TextHashMethod"} \cup FileIngestionMethods

TextHash(h) == [tag |-> "TextHash", hash |-> h]

FixedOutputHash(m, h) == [tag |-> "FixedOutputHash", method |-> m, hash |-> h]

StoreReferences(s, o) == [self |-> s, others |-> o]

TextInfo(th, refs) == [tag |-> "TextInfo", hash |-> th, references |-> refs]

FixedOutputInfo(fsh, refs) ==
    [tag |-> "FixedOutputInfo", hash |-> fsh, references |-> refs]

(***************************************************************************)
(* content-address.cc, rendering.                                          *)
(***************************************************************************)
makeFileIngestionPrefix_NoToken(m) == StrEmpty

makeFileIngestionPrefix(m) ==
    IF m = "Flat" THEN StrEmpty ELSE StrRColon

makeContentAddressingPrefix(m) ==
    IF m = "TextHashMethod" THEN StrTextColon
    ELSE makeFileIngestionPrefix(m)

makeFixedOutputCA_NoType(method, hash) ==
    StrFixedColon \o makeFileIngestionPrefix(method) \o to_string(hash, FALSE)

makeFixedOutputCA(method, hash) ==
    StrFixedColon \o makeFileIngestionPrefix(method) \o to_string(hash, TRUE)

renderContentAddress_FixedTag(ca) ==
    IF ca.tag = "TextHash"
    THEN StrFixedColon \o to_string(ca.hash, TRUE)
    ELSE StrFixedColon \o makeFileIngestionPrefix(ca.method)
            \o to_string(ca.hash, TRUE)

renderContentAddress(ca) ==
    IF ca.tag = "TextHash"
    THEN StrTextColon \o to_string(ca.hash, TRUE)
    ELSE StrFixedColon \o makeFileIngestionPrefix(ca.method)
            \o to_string(ca.hash, TRUE)

renderContentAddressMethodAndHash_NoScheme(cam, ht) ==
    makeContentAddressingPrefix(cam) \o printHashType(ht)

renderContentAddressMethodAndHash(cam, ht) ==
    IF cam = "TextHashMethod"
    THEN StrTextColon \o printHashType(ht)
    ELSE StrFixedColon \o makeFileIngestionPrefix(cam) \o printHashType(ht)

\* FixedOutputHash::printMethodAlgo
printMethodAlgoFixed(fsh) ==
    makeFileIngestionPrefix(fsh.method) \o printHashType(fsh.hash.type)

(***************************************************************************)
(* content-address.cc, parsing.  A call returns Result(v) or Throw(...):   *)
(* err is the error kind ("" for none), msg the message of the source,     *)
(* arg the text the message quotes, val the value returned (none after a   *)
(* throw).                                                                 *)
(***************************************************************************)
MsgNoPrefix == "not a content address because it is not in the form '<prefix>:<rest>'"

MsgNoAlgo == "content address hash must be in form '<algo>:<hash>'"

MsgBadPrefix == "content address prefix is unrecognized"

parseContentAddressingPrefix_AnyCase(m) ==
    IF splitPrefix(m, StrRColon).found
    THEN [method |-> "Recursive", rest |-> splitPrefix(m, StrRColon).rest]
    ELSE IF splitPrefix(m, <<"R", ":">>).found
    THEN [method |-> "Recursive", rest |-> splitPrefix(m, <<"R", ":">>).rest]
    ELSE IF splitPrefix(m, StrTextColon).found
    THEN [method |-> "TextHashMethod", rest |-> splitPrefix(m, StrTextColon).rest]
    ELSE [method |-> "Flat", rest |-> m]

\* the string_view argument is advanced in place: rest is what is left of it
parseContentAddressingPrefix(m) ==
    IF splitPrefix(m, StrRColon).found
    THEN [method |-> "Recursive", rest |-> splitPrefix(m, StrRColon).rest]
    ELSE IF splitPrefix(m, StrTextColon).found
    THEN [method |-> "TextHashMethod", rest |-> splitPrefix(m, StrTextColon).rest]
    ELSE [method |-> "Flat", rest |-> m]

\* the lambda parseHashType_ of parseContentAddressMethodPrefix, for method
\* once the prefix is known
parseHashType_(method, rest, wholeInput) ==
    LET hashTypeRaw == splitPrefixTo(rest, ":")
    IN  IF ~hashTypeRaw.found
        THEN Throw("MalformedAddress", MsgNoAlgo, wholeInput)
        ELSE LET hashType == parseHashType(hashTypeRaw.prefix)
             IN  IF hashType.err # ""
                 THEN hashType
                 ELSE Result([method |-> method,
                              hashType |-> hashType.val[1],
                              rest |-> hashTypeRaw.rest])

parseContentAddressMethodPrefix_AlgoFirst(wholeInput) ==
    LET optPrefix == splitPrefixTo(wholeInput, ":")
    IN  IF ~optPrefix.found
        THEN Throw("MalformedAddress", MsgNoPrefix, wholeInput)
        ELSE LET method == IF splitPrefix(optPrefix.rest, StrRColon).found
                           THEN "Recursive" ELSE "Flat"
                 parsed == parseHashType_(method,
                               splitPrefix(optPrefix.rest, StrRColon).rest,
                               wholeInput)
             IN  IF parsed.err # "" THEN parsed
                 ELSE IF optPrefix.prefix = StrText
                 THEN parseHashType_("TextHashMethod", optPrefix.rest, wholeInput)
                 ELSE IF optPrefix.prefix = StrFixed
                 THEN parsed
                 ELSE Throw("UnrecognizedPrefix", MsgBadPrefix, optPrefix.prefix)

parseContentAddressMethodPrefix(wholeInput) ==
    LET optPrefix == splitPrefixTo(wholeInput, ":")
    IN  IF ~optPrefix.found
        THEN Throw("MalformedAddress", MsgNoPrefix, wholeInput)
        ELSE IF optPrefix.prefix = StrText
        THEN parseHashType_("TextHashMethod", optPrefix.rest, wholeInput)
        ELSE IF optPrefix.prefix = StrFixed
        THEN LET r == splitPrefix(optPrefix.rest, StrRColon)
             IN  parseHashType_(IF r.found THEN "Recursive" ELSE "Flat",
                                r.rest, wholeInput)
        ELSE Throw("UnrecognizedPrefix", MsgBadPrefix, optPrefix.prefix)

parseContentAddress(rawCa) ==
    LET parsed == parseContentAddressMethodPrefix(rawCa)
    IN  IF parsed.err # ""
        THEN parsed
        ELSE LET caMethod == parsed.val[1].method
                 hash == parseNonSRIUnprefixed(parsed.val[1].rest,
                                               parsed.val[1].hashType)
             IN  IF hash.err # ""
                 THEN hash
                 ELSE IF caMethod = "TextHashMethod"
                 THEN Result(TextHash(hash.val[1]))
                 ELSE Result(FixedOutputHash(caMethod, hash.val[1]))

\* the pair returned: the string_view left over is local to the call
MethodAndHashType(parsed) ==
    IF parsed.err # ""
    THEN parsed
    ELSE Result([method |-> parsed.val[1].method,
                 hashType |-> parsed.val[1].hashType])

parseContentAddressMethod_NoColon(caMethod) ==
    MethodAndHashType(parseContentAddressMethodPrefix(caMethod))

parseContentAddressMethod(caMethod) ==
    MethodAndHashType(parseContentAddressMethodPrefix(caMethod \o StrColon))

parseContentAddressOpt_NoEmpty(rawCaOpt) ==
    LET ca == parseContentAddress(rawCaOpt)
    IN  IF ca.err # "" THEN ca ELSE Result(ca.val)

\* an optional<ContentAddress> is a sequence of at most one ContentAddress
parseContentAddressOpt(rawCaOpt) ==
    IF rawCaOpt = StrEmpty
    THEN Result(<< >>)
    ELSE LET ca == parseContentAddress(rawCaOpt)
         IN  IF ca.err # "" THEN ca ELSE Result(ca.val)

renderContentAddressOpt(ca) ==
    IF ca # << >> THEN renderContentAddress(ca[1]) ELSE StrEmpty

(***************************************************************************)
(* content-address.cc, addresses with references.                          *)
(***************************************************************************)
contentAddressFromMethodHashAndRefs_NoCheck(method, hash, refs) ==
    IF method = "TextHashMethod"
    THEN Result(TextInfo(TextHash(hash), refs.others))
    ELSE Result(FixedOutputInfo(FixedOutputHash(method, hash), refs))

contentAddressFromMethodHashAndRefs(method, hash, refs) ==
    IF method = "TextHashMethod"
    THEN IF refs.self
         THEN Throw("InvalidReferenceCombination",
                    "Cannot have a self reference with text hashing scheme",
                    StrEmpty)
         ELSE Result(TextInfo(TextHash(hash), refs.others))
    ELSE Result(FixedOutputInfo(FixedOutputHash(method, hash), refs))

getContentAddressMethod(ca) ==
    IF ca.tag = "TextInfo" THEN "TextHashMethod" ELSE ca.hash.method

\* getContentAddressHash(const ContentAddress &)
getContentAddressHash(ca) == ca.hash

empty(refs) == ~refs.self /\ refs.others = {}

size(refs) == (IF refs.self THEN 1 ELSE 0) + Cardinality(refs.others)

caWithoutRefs_KeepSelf(ca) ==
    IF ca.tag = "TextHash"
    THEN TextInfo(ca, {})
    ELSE FixedOutputInfo(ca, StoreReferences(ca.method = "Recursive", {}))

caWithoutRefs(ca) ==
    IF ca.tag = "TextHash"
    THEN TextInfo(ca, {})
    ELSE FixedOutputInfo(ca, StoreReferences(FALSE, {}))

\* getContentAddressHash(const ContentAddressWithReferences &)
getContentAddressHashWithRefs(ca) == ca.hash.hash

\* printMethodAlgo(const ContentAddressWithReferences &)
printMethodAlgo(ca) ==
    makeContentAddressingPrefix(getContentAddressMethod(ca))
        \o printHashType(getContentAddressHashWithRefs(ca).type)

(***************************************************************************)
(* The inputs the calls are made on.                                       *)
(***************************************************************************)
Hashes ==
    UNION { {[type |-> ht, hash |-> n] : n \in 0..(Pow(2, HashBits(ht)) - 1)}
            : ht \in HashTypes }

ContentAddresses ==
    {TextHash(h) : h \in Hashes}
        \cup {FixedOutputHash(m, h) : m \in FileIngestionMethods, h \in Hashes}

OptContentAddresses == {<< >>} \cup {<<ca>> : ca \in ContentAddresses}

StorePaths == 1..MaxPaths

ReferenceSets == {StoreReferences(s, o) : s \in BOOLEAN, o \in SUBSET StorePaths}

ContentAddressesWithReferences ==
    {TextInfo(TextHash(h), o) : h \in Hashes, o \in SUBSET StorePaths}
        \cup {FixedOutputInfo(FixedOutputHash(m, h), refs) :
                m \in FileIngestionMethods, h \in Hashes, refs \in ReferenceSets}

\* the strings parsed: a scheme, a separator, a sub-method token, an algorithm
\* name, a separator and a hash body, each slot also empty or wrong
SchemeTokens == {StrEmpty, StrText, StrFixed, <<"f", "o", "o">>}

SepTokens == {StrEmpty, StrColon}

MethodTokens ==
    {StrEmpty, StrRColon, <<"r">>, <<"R", ":">>, <<"r", "r", ":">>,
     <<"f", "l", "a", "t", ":">>, StrTextColon}

AlgoTokens ==
    {StrEmpty, printHashType("sha1"), printHashType("sha256"), <<"s", "h", "a">>}

BodyChars == {"0", "1", "7", "z", "e"}

Bodies == UNION { [1..n -> BodyChars] : n \in 0..MaxBodyLen }

Inputs ==
    {sc \o s1 \o mt \o al \o s2 \o bd :
        sc \in SchemeTokens, s1 \in SepTokens, mt \in MethodTokens,
        al \in AlgoTokens, s2 \in SepTokens, bd \in Bodies}

\* the strings the method-only entry point is called on have no hash body
MethodInputs ==
    {sc \o s1 \o mt \o al \o s2 :
        sc \in SchemeTokens, s1 \in SepTokens, mt \in MethodTokens,
        al \in AlgoTokens, s2 \in SepTokens}

(***************************************************************************)
(* The state machine: a caller that calls one function and looks at what   *)
(* came back.                                                              *)
(***************************************************************************)
Init ==
    /\ pc = "idle"
    /\ op = "none"
    /\ arg = << >>
    /\ ret = << >>

Call(o, a, r) ==
    /\ pc' = "done"
    /\ op' = o
    /\ arg' = a
    /\ ret' = r

MakeFileIngestionPrefix ==
    /\ pc = "idle"
    /\ \E m \in FileIngestionMethods :
           Call("makeFileIngestionPrefix", m, makeFileIngestionPrefix(m))

MakeContentAddressingPrefix ==
    /\ pc = "idle"
    /\ \E m \in ContentAddressMethods :
           Call("makeContentAddressingPrefix", m, makeContentAddressingPrefix(m))

ParseContentAddressingPrefix ==
    /\ pc = "idle"
    /\ \E s \in Inputs :
           Call("parseContentAddressingPrefix", s, parseContentAddressingPrefix(s))

MakeFixedOutputCA ==
    /\ pc = "idle"
    /\ \E m \in FileIngestionMethods, h \in Hashes :
           Call("makeFixedOutputCA", [method |-> m, hash |-> h],
                makeFixedOutputCA(m, h))

RenderContentAddress ==
    /\ pc = "idle"
    /\ \E ca \in ContentAddresses :
           Call("renderContentAddress", ca, renderContentAddress(ca))

RenderContentAddressMethodAndHash ==
    /\ pc = "idle"
    /\ \E cam \in ContentAddressMethods, ht \in HashTypes :
           Call("renderContentAddressMethodAndHash", [cam |-> cam, ht |-> ht],
                renderContentAddressMethodAndHash(cam, ht))

ParseContentAddressMethodPrefix ==
    /\ pc = "idle"
    /\ \E s \in Inputs :
           Call("parseContentAddressMethodPrefix", s,
                parseContentAddressMethodPrefix(s))

ParseContentAddress ==
    /\ pc = "idle"
    /\ \E s \in Inputs :
           Call("parseContentAddress", s, parseContentAddress(s))

ParseContentAddressMethod ==
    /\ pc = "idle"
    /\ \E s \in MethodInputs :
           Call("parseContentAddressMethod", s, parseContentAddressMethod(s))

ParseContentAddressOpt ==
    /\ pc = "idle"
    /\ \E s \in Inputs :
           Call("parseContentAddressOpt", s, parseContentAddressOpt(s))

RenderContentAddressOpt ==
    /\ pc = "idle"
    /\ \E ca \in OptContentAddresses :
           Call("renderContentAddressOpt", ca, renderContentAddressOpt(ca))

ContentAddressFromMethodHashAndRefs ==
    /\ pc = "idle"
    /\ \E m \in ContentAddressMethods, h \in Hashes, refs \in ReferenceSets :
           Call("contentAddressFromMethodHashAndRefs",
                [method |-> m, hash |-> h, refs |-> refs],
                contentAddressFromMethodHashAndRefs(m, h, refs))

GetContentAddressMethod ==
    /\ pc = "idle"
    /\ \E ca \in ContentAddressesWithReferences :
           Call("getContentAddressMethod", ca, getContentAddressMethod(ca))

GetContentAddressHash ==
    /\ pc = "idle"
    /\ \E ca \in ContentAddresses :
           Call("getContentAddressHash", ca, getContentAddressHash(ca))

GetContentAddressHashWithRefs ==
    /\ pc = "idle"
    /\ \E ca \in ContentAddressesWithReferences :
           Call("getContentAddressHashWithRefs", ca,
                getContentAddressHashWithRefs(ca))

CaWithoutRefs ==
    /\ pc = "idle"
    /\ \E ca \in ContentAddresses :
           Call("caWithoutRefs", ca, caWithoutRefs(ca))

PrintMethodAlgo ==
    /\ pc = "idle"
    /\ \E ca \in ContentAddressesWithReferences :
           Call("printMethodAlgo", ca, printMethodAlgo(ca))

\* the caller is done with the result
Finish ==
    /\ pc = "done"
    /\ pc' = "idle"
    /\ op' = "none"
    /\ arg' = << >>
    /\ ret' = << >>

Next ==
    \/ MakeFileIngestionPrefix
    \/ MakeContentAddressingPrefix
    \/ ParseContentAddressingPrefix
    \/ MakeFixedOutputCA
    \/ RenderContentAddress
    \/ RenderContentAddressMethodAndHash
    \/ ParseContentAddressMethodPrefix
    \/ ParseContentAddress
    \/ ParseContentAddressMethod
    \/ ParseContentAddressOpt
    \/ RenderContentAddressOpt
    \/ ContentAddressFromMethodHashAndRefs
    \/ GetContentAddressMethod
    \/ GetContentAddressHash
    \/ GetContentAddressHashWithRefs
    \/ CaWithoutRefs
    \/ PrintMethodAlgo
    \/ Finish

Spec == Init /\ [][Next]_vars

(***************************************************************************)
(* Properties.                                                             *)
(***************************************************************************)
Called(o) == pc = "done" /\ op = o

ParseAfterRender ==
    Called("renderContentAddress")
        => /\ parseContentAddress(ret) = Result(arg)
           /\ \A other \in ContentAddresses :
                renderContentAddress(other) = ret => other = arg

ParseAfterRenderWitness ==
    /\ Called("renderContentAddress")
    /\ arg.tag = "TextHash"
    /\ arg.hash.type = "sha256"
    /\ arg.hash.hash = Pow(2, HashBits("sha256")) - 1

\* C3: contentAddressFromMethodHashAndRefs throws exactly when the method is
\* the text method and the references hold a self reference, and then returns
\* nothing; a TextInfo it returns holds only the others set, a FixedOutputInfo
\* the whole reference set.
SelfReferenceInvariant ==
    Called("contentAddressFromMethodHashAndRefs")
        => /\ (arg.method = "TextHashMethod" /\ arg.refs.self)
                => (ret.err = "InvalidReferenceCombination" /\ ret.val = << >>)
           /\ ret.err # ""
                => (arg.method = "TextHashMethod" /\ arg.refs.self)
           /\ (ret.err = "" /\ arg.method = "TextHashMethod")
                => ret.val[1] = TextInfo(TextHash(arg.hash), arg.refs.others)
           /\ (ret.err = "" /\ arg.method # "TextHashMethod")
                => /\ ret.val[1].tag = "FixedOutputInfo"
                   /\ ret.val[1].hash = FixedOutputHash(arg.method, arg.hash)
                   /\ ret.val[1].references = arg.refs

SelfReferenceWitness ==
    /\ Called("contentAddressFromMethodHashAndRefs")
    /\ arg.method = "TextHashMethod"
    /\ arg.refs.self
    /\ arg.refs.others # {}
    /\ ret.err = "InvalidReferenceCombination"

AfterScheme(s) == SubSeq(s, IndexOf(s, ":") + 1, Len(s))

SchemeOf(s) == SubSeq(s, 1, IndexOf(s, ":") - 1)

AfterMethod(s) ==
    IF SchemeOf(s) = StrFixed /\ startsWith(AfterScheme(s), StrRColon)
    THEN SubSeq(AfterScheme(s), Len(StrRColon) + 1, Len(AfterScheme(s)))
    ELSE AfterScheme(s)

ErrorClassification ==
    (Called("parseContentAddressMethodPrefix") \/ Called("parseContentAddress"))
        => /\ IndexOf(arg, ":") = 0
                => (ret.err = "MalformedAddress" /\ ret.msg = MsgNoPrefix)
           /\ (IndexOf(arg, ":") # 0 /\ SchemeOf(arg) \notin {StrText, StrFixed})
                => (ret.err = "UnrecognizedPrefix" /\ ret.arg = SchemeOf(arg))
           /\ (/\ IndexOf(arg, ":") # 0
               /\ SchemeOf(arg) \in {StrText, StrFixed}
               /\ IndexOf(AfterMethod(arg), ":") = 0)
                => (ret.err = "MalformedAddress" /\ ret.msg = MsgNoAlgo)
           /\ ret.err \in {"UnknownHashAlgorithm", "InvalidDigestEncoding"}
                => /\ IndexOf(arg, ":") # 0
                   /\ SchemeOf(arg) \in {StrText, StrFixed}
                   /\ IndexOf(AfterMethod(arg), ":") # 0
           /\ ret.err # "" => ret.val = << >>

ErrorClassificationWitness ==
    /\ Called("parseContentAddressMethodPrefix")
    /\ ret.err = "UnrecognizedPrefix"
    /\ IndexOf(AfterScheme(arg), ":") # 0
    /\ parseHashType(SubSeq(AfterScheme(arg), 1,
                            IndexOf(AfterScheme(arg), ":") - 1)).err # ""

\* C6: a rendered address is 'text:' or 'fixed:', then 'r:' exactly for the
\* recursive method, then the algorithm name, ':' and a base-32 body of the
\* algorithm's length; makeFixedOutputCA renders as renderContentAddress does.
BodyOf(s, ht) == SubSeq(s, Len(printHashType(ht)) + 2, Len(s))

IsAlgoColonBody(s, ht) ==
    /\ startsWith(s, printHashType(ht) \o StrColon)
    /\ Len(BodyOf(s, ht)) = base32Len(ht)
    /\ \A i \in 1..Len(BodyOf(s, ht)) : isBase32Char(BodyOf(s, ht)[i])

FixedGrammar(s, method, hash) ==
    LET rest == SubSeq(s, Len(StrFixedColon) + 1, Len(s))
    IN  /\ startsWith(s, StrFixedColon)
        /\ startsWith(rest, StrRColon) <=> method = "Recursive"
        /\ method = "Recursive"
             => IsAlgoColonBody(SubSeq(rest, Len(StrRColon) + 1, Len(rest)),
                                hash.type)
        /\ method = "Flat" => IsAlgoColonBody(rest, hash.type)

CanonicalGrammar ==
    /\ (Called("renderContentAddress") /\ arg.tag = "TextHash")
         => /\ startsWith(ret, StrTextColon)
            /\ IsAlgoColonBody(SubSeq(ret, Len(StrTextColon) + 1, Len(ret)),
                               arg.hash.type)
    /\ (Called("renderContentAddress") /\ arg.tag = "FixedOutputHash")
         => FixedGrammar(ret, arg.method, arg.hash)
    /\ Called("makeFixedOutputCA")
         => /\ FixedGrammar(ret, arg.method, arg.hash)
            /\ ret = renderContentAddress(FixedOutputHash(arg.method, arg.hash))

CanonicalGrammarWitness ==
    /\ Called("makeFixedOutputCA")
    /\ arg.method = "Flat"
    /\ arg.hash.type = "sha1"
    /\ ~startsWith(SubSeq(ret, Len(StrFixedColon) + 1, Len(ret)), StrRColon)

\* C7: makeFileIngestionPrefix maps Flat to '' and Recursive to 'r:'; a parser
\* decodes Recursive exactly when the token at that place is literally 'r:'
\* and consumes it, and decodes Flat only by consuming no token at all, so an
\* address accepted as Flat has the algorithm name right after 'fixed:'.
Consumed(s, rest) == SubSeq(s, 1, Len(s) - Len(rest))

OptionalIdentity ==
    /\ Called("parseContentAddressOpt")
         => /\ arg = StrEmpty => ret = Result(<< >>)
            /\ arg # StrEmpty
                 => LET ca == parseContentAddress(arg)
                    IN  /\ ret.err = ca.err
                        /\ ret.msg = ca.msg
                        /\ ret.arg = ca.arg
                        /\ ca.err = "" => ret.val = <<ca.val>>
                        /\ ca.err # "" => ret.val = << >>
    /\ Called("renderContentAddressOpt")
         => /\ arg = << >> <=> ret = StrEmpty
            /\ parseContentAddressOpt(ret) = Result(arg)

OptionalIdentityWitness ==
    /\ Called("parseContentAddressOpt")
    /\ arg = StrEmpty
    /\ ret.err = ""
    /\ ret.val = << << >> >>

\* C9: caWithoutRefs keeps the tag and the hash of the address and gives it an
\* empty reference set (no self reference, no others), and the projections of
\* the result are the method and the hash of the address.
StripReferences ==
    Called("caWithoutRefs")
        => /\ arg.tag = "TextHash"
                => /\ ret.tag = "TextInfo"
                   /\ ret.references = {}
                   /\ Cardinality(ret.references) = 0
                   /\ getContentAddressMethod(ret) = "TextHashMethod"
           /\ arg.tag = "FixedOutputHash"
                => /\ ret.tag = "FixedOutputInfo"
                   /\ ~ret.references.self
                   /\ ret.references.others = {}
                   /\ empty(ret.references)
                   /\ size(ret.references) = 0
                   /\ getContentAddressMethod(ret) = arg.method
           /\ ret.hash = arg
           /\ getContentAddressHashWithRefs(ret) = arg.hash
           /\ getContentAddressHash(arg) = arg.hash

StripReferencesWitness ==
    /\ Called("caWithoutRefs")
    /\ arg.tag = "FixedOutputHash"
    /\ arg.method = "Recursive"
    /\ ret.tag = "FixedOutputInfo"

\* C10: renderContentAddressMethodAndHash gives 'text:', 'fixed:' or
\* 'fixed:r:' followed by the algorithm name, and parseContentAddressMethod
\* of that string returns the method and the algorithm rendered.
MethodAndAlgoRoundTrip ==
    Called("renderContentAddressMethodAndHash")
        => /\ arg.cam = "TextHashMethod"
                => ret = StrTextColon \o printHashType(arg.ht)
           /\ arg.cam = "Flat"
                => ret = StrFixedColon \o printHashType(arg.ht)
           /\ arg.cam = "Recursive"
                => ret = StrFixedColon \o StrRColon \o printHashType(arg.ht)
           /\ parseContentAddressMethod(ret)
                = Result([method |-> arg.cam, hashType |-> arg.ht])

MethodAndAlgoRoundTripWitness ==
    /\ Called("renderContentAddressMethodAndHash")
    /\ arg.cam = "Flat"
    /\ arg.ht = "sha256"
    /\ parseContentAddressMethod(ret).err = ""

====
